---- MODULE Spec2Model ----
(***************************************************************************)
(* Camera-tracking bake and MP4 export of the Blender automation scripts.  *)
(*                                                                         *)
(*   exercises/project2/project2_ex1_fbx_tiktok_renderer.py                *)
(*       setup_camera_tracking, get_target_world_location, render_to_mp4,  *)
(*       render, create, import_fbx, find_armature                         *)
(*   exercises/week2/week2_ex2_camera_follow.py                            *)
(*       TargetAdapter.world_location, bake_camera_animation, main         *)
(*   exercises/week1/week1_ex3_character_stub.py                           *)
(*       import_character, animate_character, setup_camera, main           *)
(*                                                                         *)
(* Lengths are integers in half metres (2.5 m = 5, 1.5 m = 3, 0.5 m = 1).  *)
(* World transforms are translations: matrix_world @ bone.matrix has the   *)
(* translation  matrix_world.translation + bone.matrix.translation.        *)
(* An Optional[int] is a sequence: <<>> is None, <<v>> is the value v.     *)
(* An absent bone name is the empty string (falsy in Python, as None is).  *)
(***************************************************************************)
EXTENDS Integers, Sequences, FiniteSets, TLC

VARIABLES
    frame_current,  \* scene.frame_current, the shared timeline
    anim,           \* object name -> its animation data (keyframe track)
    pose,           \* camera name -> its location and rotation_euler
    bk,             \* activation record of the bake that is running
    rc,             \* the Render Configuration: scene.render and the frame range
    fs,             \* the file system: directories and the sizes of the files
    ex,             \* activation record of the export that is running
    rcB, fsB, exB,  \* a second scene, file system and export, run side by side
    cmd             \* the command or script main() the process runs

bakeVars == <<frame_current, anim, pose, bk>>
exportVars == <<rc, fs, ex>>
twinVars == <<rcB, fsB, exB>>
vars == <<frame_current, anim, pose, bk, rc, fs, ex, rcB, fsB, exB, cmd>>

-----------------------------------------------------------------------------
(* Bounds of the model.                                                    *)

\* frame_start arguments are 1 .. MaxStart
MaxStart == 2
\* explicit frame_end arguments are 0 .. MaxEnd
MaxEnd == 12

-----------------------------------------------------------------------------
(* Program constants.                                                      *)

FRAME_STEP == 5
CAMERA_DISTANCE == 5
CAMERA_HEIGHT_OFFSET == 3
TARGET_BONE_NAME == "mixamorig:Hips"
DEFAULT_FRAME_START == 1
DEFAULT_FRAME_END == 250

FOLLOW_FRAME_START == 1
FOLLOW_FRAME_END == 180
FOLLOW_STEP == 10
FOLLOW_Y_OFFSET == -6
FOLLOW_Z_OFFSET == 6
FOLLOW_MIN_Z == 1

CHARACTER_FRAME_START == 1
CHARACTER_FRAME_END == 90
CHARACTER_STEP == 10
CHARACTER_Y_OFFSET == -6
CHARACTER_Z_OFFSET == 6
CHARACTER_MIN_Z == 1

\* the codes of the typer.Exit raised at each failure
FBX_NOT_FOUND_EXIT == 1
NO_OBJECTS_EXIT == 1
BLEND_NOT_FOUND_EXIT == 1
NO_CAMERA_EXIT == 1
EXPORT_FAILED_EXIT == 1
\* create: the end frame when none is given and the armature has no action
CREATE_FALLBACK_END == 250

NoBone == ""

-----------------------------------------------------------------------------
(* The scene: the targets a file can bring, the objects week1 can follow   *)
(* and one camera per script.                                              *)

Nodes == {"Armature", "Cube"}

NodeType(node) == IF node = "Armature" THEN "ARMATURE" ELSE "EMPTY"

\* armature.pose.bones: the joint table of a node
PoseBones(node) == IF node = "Armature" THEN {TARGET_BONE_NAME} ELSE {}

BoneNames == {NoBone, TARGET_BONE_NAME, "mixamorig:Head"}

TikTokCamera == "TikTokCamera"
FollowCam == "FollowCam"
FollowCamera == "FollowCamera"
Cameras == {TikTokCamera, FollowCam, FollowCamera}

\* week1: the placeholder monkey and the floor plane of build_environment
ProxyCharacter == "ProxyCharacter"
Plane == "Plane"
Characters == {ProxyCharacter, Plane}

\* week2: the empty that build_proxy_target creates and names
ProxyRig == "ProxyRig"

Objects == Cameras \cup Nodes \cup Characters \cup {ProxyRig}

Vec(x, y, z) == <<x, y, z>>
VecAdd(a, b) == <<a[1] + b[1], a[2] + b[2], a[3] + b[3]>>
VecSub(a, b) == <<a[1] - b[1], a[2] - b[2], a[3] - b[3]>>

Max(a, b) == IF a >= b THEN a ELSE b

\* week1 animate_character: the four location keys every followed object gets
CharacterBeats ==
    << [frame |-> CHARACTER_FRAME_START, location |-> Vec(0, 0, 0)],
       [frame |-> 30, location |-> Vec(1, 3, 0)],
       [frame |-> 60, location |-> Vec(3, 6, 0)],
       [frame |-> CHARACTER_FRAME_END, location |-> Vec(7, 9, 0)] >>

\* week2 build_proxy_target: the four location keys of the proxy
ProxyBeats ==
    << [frame |-> FOLLOW_FRAME_START, location |-> Vec(0, 0, 2)],
       [frame |-> 60, location |-> Vec(2, 3, 2)],
       [frame |-> 120, location |-> Vec(5, 6, 2)],
       [frame |-> FOLLOW_FRAME_END, location |-> Vec(8, 9, 2)] >>

Lerp(a, b, f0, f1, f) == a + ((b - a) * (f - f0)) \div (f1 - f0)

\* the value of a location curve with the timeline at frame f: held before
\* the first and after the last key and interpolated between two keys
BeatsLocation(beats, f) ==
    LET n == Len(beats)
    IN  IF f <= beats[1].frame THEN beats[1].location
        ELSE IF f >= beats[n].frame THEN beats[n].location
        ELSE LET i == CHOOSE i \in 1 .. n - 1 :
                          /\ beats[i].frame <= f
                          /\ f < beats[i + 1].frame
                 a == beats[i]
                 b == beats[i + 1]
             IN  [k \in 1 .. 3 |->
                     Lerp(a.location[k], b.location[k], a.frame, b.frame, f)]

\* week1 target.matrix_world.translation with the timeline at frame f: the
\* location curve of animate_character
CharacterWorldLocation(f) == BeatsLocation(CharacterBeats, f)

\* obj.matrix_world.translation with the timeline at frame f: the armature
\* walks away from the origin, the proxy of week2 follows its beats, any
\* other object sinks below the floor.
MatrixWorldTranslation(node, f) ==
    IF node = "Armature"
    THEN Vec(f \div 50, f \div 10, 0)
    ELSE IF node = ProxyRig
    THEN BeatsLocation(ProxyBeats, f)
    ELSE Vec(2, 0, 3 - f)

\* bone.matrix.translation (armature space) with the timeline at frame f
BoneMatrixTranslation(node, bone, f) == Vec(0, f % 2, 2)

-----------------------------------------------------------------------------
(* Target Resolver.                                                        *)

\* tuple(target.matrix_world.translation): a node resolved as a plain object
ObjectWorldLocation(node, f) == MatrixWorldTranslation(node, f)

get_target_world_location_origin(armature, bone_name, f) ==
    IF bone_name \in PoseBones(armature)
    THEN VecAdd(MatrixWorldTranslation(armature, f),
                BoneMatrixTranslation(armature, bone_name, f))
    ELSE Vec(0, 0, 0)

get_target_world_location(armature, bone_name, f) ==
    IF bone_name \in PoseBones(armature)
    THEN VecAdd(MatrixWorldTranslation(armature, f),
                BoneMatrixTranslation(armature, bone_name, f))
    ELSE MatrixWorldTranslation(armature, f)

\* the target branch of the bake loop
ResolveTarget(target, bone_name, f) ==
    IF NodeType(target) = "ARMATURE" /\ bone_name # NoBone
    THEN get_target_world_location(target, bone_name, f)
    ELSE ObjectWorldLocation(target, f)

\* TargetAdapter.world_location() of week2
world_location(obj, bone_name, f) ==
    IF NodeType(obj) = "ARMATURE" /\ bone_name # NoBone
          /\ bone_name \in PoseBones(obj)
    THEN VecAdd(MatrixWorldTranslation(obj, f),
                BoneMatrixTranslation(obj, bone_name, f))
    ELSE MatrixWorldTranslation(obj, f)

-----------------------------------------------------------------------------
(* Look-At Solver: direction.to_track_quat("-Z", "Y").to_euler().  The     *)
(* orientation depends on the direction only up to a positive factor, so   *)
(* it is the direction divided by the gcd of its components; the zero      *)
(* direction gives the solver's default orientation.                       *)

Abs(n) == IF n < 0 THEN -n ELSE n

RECURSIVE Gcd(_, _)
Gcd(a, b) == IF b = 0 THEN a ELSE Gcd(b, a % b)

TrackEuler(direction) ==
    LET g == Gcd(Gcd(Abs(direction[1]), Abs(direction[2])), Abs(direction[3]))
    IN  IF g = 0 THEN Vec(0, 0, 0)
        ELSE Vec(direction[1] \div g, direction[2] \div g, direction[3] \div g)

-----------------------------------------------------------------------------
(* Keyframe tracks.                                                        *)

\* an F-curve is a function from the keyed frames to the keyed value
EmptyCurve == [f \in {} |-> Vec(0, 0, 0)]

NoAnimation == [exists |-> FALSE, location |-> EmptyCurve,
                rotation_euler |-> EmptyCurve]

\* camera.keyframe_insert(data_path, frame): a key on a keyed frame is replaced
KeyframeInsert(curve, frame, value) ==
    [f \in (DOMAIN curve) \cup {frame} |-> IF f = frame THEN value ELSE curve[f]]

\* the animation an imported target brings: location keys at the ends of
\* its action, none on the rotation
TargetAnimation(node) ==
    [exists |-> TRUE,
     location |-> [f \in {DEFAULT_FRAME_START, DEFAULT_FRAME_END} |->
                      MatrixWorldTranslation(node, f)],
     rotation_euler |-> EmptyCurve]

\* week2 build_proxy_target(): animation_data_clear, then the four beats
ProxyAnimation ==
    [exists |-> TRUE,
     location |-> [f \in {ProxyBeats[i].frame : i \in DOMAIN ProxyBeats} |->
                      BeatsLocation(ProxyBeats, f)],
     rotation_euler |-> EmptyCurve]

\* week1 animate_character(obj): animation_data_clear, then the four beats
CharacterAnimation ==
    [exists |-> TRUE,
     location |-> [f \in {CharacterBeats[i].frame : i \in DOMAIN CharacterBeats} |->
                      CharacterWorldLocation(f)],
     rotation_euler |-> EmptyCurve]

\* week1 target.matrix_world.translation with the timeline at frame f: the
\* beats once animate_character has keyed the target
CharacterTranslation(target, f) ==
    IF anim[target] = CharacterAnimation
    THEN CharacterWorldLocation(f)
    ELSE ObjectWorldLocation(target, f)

\* the tracks of a scene in which nothing has been baked
InitAnimation ==
    [o \in Objects |-> IF o \in Nodes THEN TargetAnimation(o) ELSE NoAnimation]

\* the frames that carry a key of either data path
KeyedFrames(a) == (DOMAIN a.location) \cup (DOMAIN a.rotation_euler)

animation_data_keep(a) == a

\* camera.animation_data_clear()
animation_data_clear(a) == NoAnimation

RangeNext_no_advance(next, step) == next

\* range(frame_start, frame_end + 1, step): the value after next
RangeNext(next, step) == next + step

RangeHasNext_exclusive(next, frame_end) == next < frame_end

\* range(frame_start, frame_end + 1, step) yields next while next < frame_end + 1
RangeHasNext(next, frame_end) == next < frame_end + 1

SeqSet(s) == {s[i] : i \in DOMAIN s}

-----------------------------------------------------------------------------
(* Tracking Baker of project2: setup_camera_tracking.                      *)

StartFrames == 1 .. MaxStart
EndFrames == (0 .. MaxEnd) \cup {DEFAULT_FRAME_END}

BakeIdle == [pc |-> "idle", fn |-> "none", camera |-> TikTokCamera,
             target |-> "Armature", bone_name |-> NoBone,
             frame_start |-> DEFAULT_FRAME_START, frame_end |-> DEFAULT_FRAME_START,
             next |-> DEFAULT_FRAME_START, target_loc |-> Vec(0, 0, 0),
             direction |-> Vec(0, 0, 0), keylog |-> <<>>, reported |-> <<>>,
             outcome |-> "none", prior_frames |-> {},
             frame_sets |-> <<>>, resolves |-> <<>>]

InitPose == [c \in Cameras |-> [location |-> Vec(0, 0, 0),
                                rotation_euler |-> Vec(0, 0, 0)]]

BakeInit ==
    /\ frame_current = 1
    /\ anim = InitAnimation
    /\ pose = InitPose
    /\ bk = BakeIdle

\* call setup_camera_tracking(camera, target, bone_name, frame_start, frame_end);
\* a scene belongs to the process of one script, which calls its own bake
CallSetupCameraTracking ==
    /\ bk.pc = "idle"
    /\ bk.fn \in {"none", "setup_camera_tracking"}
    /\ \E target \in Nodes, bone_name \in BoneNames,
          frame_start \in StartFrames, frame_end \in EndFrames :
          bk' = [BakeIdle EXCEPT !.pc = "clear", !.fn = "setup_camera_tracking",
                                 !.camera = TikTokCamera,
                                 !.target = target, !.bone_name = bone_name,
                                 !.frame_start = frame_start,
                                 !.frame_end = frame_end,
                                 !.next = frame_start,
                                 !.outcome = "running",
                                 !.prior_frames = KeyedFrames(anim[TikTokCamera])]
    /\ UNCHANGED <<frame_current, anim, pose>>
    /\ UNCHANGED <<exportVars, twinVars, cmd>>

\* call bake_camera_animation(camera, TargetAdapter(obj, bone_name)): the range
\* and the step are the module constants of week2_ex2_camera_follow.py
CallBakeCameraAnimation ==
    /\ bk.pc = "idle"
    /\ bk.fn \in {"none", "bake_camera_animation"}
    /\ \E obj \in Nodes, bone_name \in BoneNames :
          bk' = [BakeIdle EXCEPT !.pc = "loop", !.fn = "bake_camera_animation",
                                 !.camera = FollowCam,
                                 !.target = obj, !.bone_name = bone_name,
                                 !.frame_start = FOLLOW_FRAME_START,
                                 !.frame_end = FOLLOW_FRAME_END,
                                 !.next = FOLLOW_FRAME_START,
                                 !.outcome = "running",
                                 !.prior_frames = KeyedFrames(anim[FollowCam])]
    /\ UNCHANGED <<frame_current, anim, pose>>
    /\ UNCHANGED <<exportVars, twinVars, cmd>>

\* if camera.animation_data: camera.animation_data_clear()
ClearExistingAnimation ==
    /\ bk.pc = "clear"
    /\ anim' = IF anim[bk.camera].exists
               THEN [anim EXCEPT ![bk.camera] = animation_data_clear(@)]
               ELSE anim
    /\ bk' = [bk EXCEPT !.pc = "loop"]
    /\ UNCHANGED <<frame_current, pose>>
    /\ UNCHANGED <<exportVars, twinVars, cmd>>

frame_set_skipped(current, frame) == current

\* scene.frame_set(frame): the timeline after the call
frame_set(current, frame) == frame

\* the step of the loop of each script
LoopStep(fn) ==
    IF fn = "setup_camera_tracking" THEN FRAME_STEP
    ELSE IF fn = "bake_camera_animation" THEN FOLLOW_STEP
    ELSE CHARACTER_STEP

\* for frame in range(frame_start, frame_end + 1, FRAME_STEP): scene.frame_set(frame)
BakeFrameSet ==
    /\ bk.pc = "loop"
    /\ RangeHasNext(bk.next, bk.frame_end)
    /\ frame_current' = frame_set(frame_current, bk.next)
    /\ bk' = [bk EXCEPT !.pc = "resolve", !.frame_sets = Append(@, bk.next)]
    /\ UNCHANGED <<anim, pose>>
    /\ UNCHANGED <<exportVars, twinVars, cmd>>

BakeResolve_moving_timeline ==
    /\ bk.pc = "resolve"
    /\ bk' = [bk EXCEPT !.pc = "place",
                        !.target_loc =
                            IF bk.fn = "setup_camera_tracking"
                            THEN ResolveTarget(bk.target, bk.bone_name, frame_current)
                            ELSE IF bk.fn = "bake_camera_animation"
                            THEN world_location(bk.target, bk.bone_name,
                                                frame_current)
                            ELSE CharacterTranslation(bk.target, frame_current),
                        !.resolves = Append(@, [frame |-> bk.next,
                                                at |-> frame_current])]
    /\ frame_current' = frame_current + 1
    /\ UNCHANGED <<anim, pose>>
    /\ UNCHANGED <<exportVars, twinVars, cmd>>

\* the target location at the current frame
BakeResolve ==
    /\ bk.pc = "resolve"
    /\ bk' = [bk EXCEPT !.pc = "place",
                        !.target_loc =
                            IF bk.fn = "setup_camera_tracking"
                            THEN ResolveTarget(bk.target, bk.bone_name, frame_current)
                            ELSE IF bk.fn = "bake_camera_animation"
                            THEN world_location(bk.target, bk.bone_name,
                                                frame_current)
                            ELSE CharacterTranslation(bk.target, frame_current),
                        !.resolves = Append(@, [frame |-> bk.next,
                                                at |-> frame_current])]
    /\ UNCHANGED <<frame_current, anim, pose>>
    /\ UNCHANGED <<exportVars, twinVars, cmd>>

CameraLocation_at_target(target_loc) == target_loc

\* camera.location = (x, y - CAMERA_DISTANCE, z + CAMERA_HEIGHT_OFFSET)
CameraLocation(target_loc) ==
    Vec(target_loc[1], target_loc[2] - CAMERA_DISTANCE,
        target_loc[3] + CAMERA_HEIGHT_OFFSET)

FollowCameraLocation_unclamped(target_loc) ==
    Vec(target_loc[1], target_loc[2] + FOLLOW_Y_OFFSET,
        target_loc[3] + FOLLOW_Z_OFFSET)

\* week2: Vector((x, y + Y_OFFSET, max(z + Z_OFFSET, 0.5)))
FollowCameraLocation(target_loc) ==
    Vec(target_loc[1], target_loc[2] + FOLLOW_Y_OFFSET,
        Max(target_loc[3] + FOLLOW_Z_OFFSET, FOLLOW_MIN_Z))

\* week1: location.x, location.y, location.z = x, y + Y_OFFSET,
\* max(z + Z_OFFSET, 0.5)
CharacterCameraLocation(target_loc) ==
    Vec(target_loc[1], target_loc[2] + CHARACTER_Y_OFFSET,
        Max(target_loc[3] + CHARACTER_Z_OFFSET, CHARACTER_MIN_Z))

BakePlace ==
    /\ bk.pc = "place"
    /\ pose' = [pose EXCEPT ![bk.camera].location =
                    IF bk.fn = "setup_camera_tracking"
                    THEN CameraLocation(bk.target_loc)
                    ELSE IF bk.fn = "bake_camera_animation"
                    THEN FollowCameraLocation(bk.target_loc)
                    ELSE CharacterCameraLocation(bk.target_loc)]
    /\ bk' = [bk EXCEPT !.pc = "orient"]
    /\ UNCHANGED <<frame_current, anim>>
    /\ UNCHANGED <<exportVars, twinVars, cmd>>

LookDirection_from_target(target_loc, camera_location) ==
    VecSub(camera_location, target_loc)

\* direction = target_loc - camera.location
LookDirection(target_loc, camera_location) == VecSub(target_loc, camera_location)

\* direction = target_loc - camera.location; rotation_euler = look-at(direction)
BakeOrient ==
    /\ bk.pc = "orient"
    /\ LET direction == LookDirection(bk.target_loc, pose[bk.camera].location)
       IN  /\ pose' = [pose EXCEPT ![bk.camera].rotation_euler = TrackEuler(direction)]
           /\ bk' = [bk EXCEPT !.pc = "key_location", !.direction = direction]
    /\ UNCHANGED <<frame_current, anim>>
    /\ UNCHANGED <<exportVars, twinVars, cmd>>

KeyedObject_target(camera, target) == target

\* the object whose keyframe_insert the loop calls: the camera
KeyedObject(camera, target) == camera

\* camera.keyframe_insert(data_path="location", frame=frame)
BakeKeyLocation ==
    /\ bk.pc = "key_location"
    /\ anim' = [anim EXCEPT ![KeyedObject(bk.camera, bk.target)].exists = TRUE,
                            ![KeyedObject(bk.camera, bk.target)].location =
                                KeyframeInsert(@, bk.next, pose[bk.camera].location)]
    /\ bk' = [bk EXCEPT !.pc = "key_rotation",
                        !.keylog = Append(@, [path |-> "location", frame |-> bk.next])]
    /\ UNCHANGED <<frame_current, pose>>
    /\ UNCHANGED <<exportVars, twinVars, cmd>>

BakeKeyRotation_skipped ==
    /\ bk.pc = "key_rotation"
    /\ bk' = [bk EXCEPT !.pc = "loop",
                        !.next = RangeNext(@, LoopStep(bk.fn))]
    /\ UNCHANGED <<frame_current, anim, pose>>
    /\ UNCHANGED <<exportVars, twinVars, cmd>>

\* camera.keyframe_insert(data_path="rotation_euler", frame=frame); next frame
BakeKeyRotation ==
    /\ bk.pc = "key_rotation"
    /\ anim' = [anim EXCEPT ![KeyedObject(bk.camera, bk.target)].exists = TRUE,
                            ![KeyedObject(bk.camera, bk.target)].rotation_euler =
                                KeyframeInsert(@, bk.next,
                                               pose[bk.camera].rotation_euler)]
    /\ bk' = [bk EXCEPT !.pc = "loop",
                        !.next = RangeNext(@, LoopStep(bk.fn)),
                        !.keylog = Append(@, [path |-> "rotation_euler",
                                              frame |-> bk.next])]
    /\ UNCHANGED <<frame_current, pose>>
    /\ UNCHANGED <<exportVars, twinVars, cmd>>

ReportedCount_no_plus_one(frame_start, frame_end) ==
    (frame_end - frame_start) \div FRAME_STEP

\* the count echoed after the loop: (frame_end - frame_start) // FRAME_STEP + 1
ReportedCount(frame_start, frame_end) ==
    (frame_end - frame_start) \div FRAME_STEP + 1

\* the range is exhausted: echo the count and return None
BakeReturn ==
    /\ bk.pc = "loop"
    /\ ~RangeHasNext(bk.next, bk.frame_end)
    /\ bk' = [bk EXCEPT !.pc = "idle", !.outcome = "returned",
                        !.reported =
                            IF bk.fn = "setup_camera_tracking"
                            THEN <<ReportedCount(bk.frame_start, bk.frame_end)>>
                            ELSE <<>>]
    /\ UNCHANGED <<frame_current, anim, pose>>
    /\ UNCHANGED <<exportVars, twinVars, cmd>>

\* call week1's setup_camera(target): a new camera, placed from
\* target.location, then the loop over the module constants of
\* week1_ex3_character_stub.py
CallSetupCamera ==
    /\ bk.pc = "idle"
    /\ bk.fn \in {"none", "setup_camera"}
    /\ \E target \in Nodes :
          LET target_location == ObjectWorldLocation(target, frame_current)
          IN  /\ pose' = [pose EXCEPT ![FollowCamera] =
                             [location |->
                                  Vec(0, target_location[2] + CHARACTER_Y_OFFSET,
                                      target_location[3] + CHARACTER_Z_OFFSET),
                              rotation_euler |-> Vec(0, 0, 0)]]
              /\ anim' = [anim EXCEPT ![FollowCamera] = NoAnimation]
              /\ bk' = [BakeIdle EXCEPT !.pc = "loop", !.fn = "setup_camera",
                                        !.camera = FollowCamera,
                                        !.target = target, !.bone_name = NoBone,
                                        !.frame_start = CHARACTER_FRAME_START,
                                        !.frame_end = CHARACTER_FRAME_END,
                                        !.next = CHARACTER_FRAME_START,
                                        !.outcome = "running",
                                        !.prior_frames = {}]
    /\ UNCHANGED frame_current
    /\ UNCHANGED <<exportVars, twinVars, cmd>>

BakeNext ==
    \/ CallSetupCameraTracking
    \/ CallBakeCameraAnimation
    \/ CallSetupCamera
    \/ ClearExistingAnimation
    \/ BakeFrameSet
    \/ BakeResolve
    \/ BakePlace
    \/ BakeOrient
    \/ BakeKeyLocation
    \/ BakeKeyRotation
    \/ BakeReturn

-----------------------------------------------------------------------------
(* Properties of the Tracking Baker.                                       *)

IsLocationKey(e) == e.path = "location"
IsRotationKey(e) == e.path = "rotation_euler"

\* the frames keyed by the running or last bake, in the order of the writes
LoggedFrames(log) == [i \in DOMAIN log |-> log[i].frame]
LocationWrites == LoggedFrames(SelectSeq(bk.keylog, IsLocationKey))
RotationWrites == LoggedFrames(SelectSeq(bk.keylog, IsRotationKey))

BakeStep == LoopStep(bk.fn)

BakeReturned == bk.pc = "idle" /\ bk.outcome = "returned"

\* C3: a bake over frame_start <= frame_end writes exactly
\* floor((frame_end - frame_start) / step) + 1 keyframes, at frame_start,
\* frame_start + step, ..., and the count it reports is the number written.
C3_BakeWritesFloorPlusOneKeyframes ==
    (BakeReturned /\ bk.frame_start <= bk.frame_end) =>
        LET n == (bk.frame_end - bk.frame_start) \div BakeStep + 1
        IN  /\ Len(LocationWrites) = n
            /\ RotationWrites = LocationWrites
            /\ \A i \in 1 .. n :
                   LocationWrites[i] = bk.frame_start + (i - 1) * BakeStep
            /\ bk.fn = "setup_camera_tracking" =>
                   bk.reported = <<Len(LocationWrites)>>

C3_Witness ==
    /\ BakeReturned
    /\ bk.fn = "setup_camera_tracking"
    /\ bk.frame_start = 2 /\ bk.frame_end = 11
    /\ bk.reported = <<2>>
    /\ LocationWrites = <<2, 7>>

\* C4 as stated: the last keyframe of a bake over a valid range is at
\* frame_end, also when frame_end - frame_start is not a multiple of step.
C4_LastKeyframeAtFrameEnd ==
    (BakeReturned /\ bk.frame_start <= bk.frame_end) =>
        /\ LocationWrites # <<>>
        /\ LocationWrites[Len(LocationWrites)] = bk.frame_end

\* C4 amended: the last keyframe is at the last frame of the arithmetic
\* progression that does not exceed frame_end; it is frame_end exactly when
\* frame_end - frame_start is a multiple of step, and a bake over 1 .. 250
\* with step 5 ends at frame 246 and leaves frame 250 unkeyed.
C4_LastKeyframeAtLastMultiple ==
    (BakeReturned /\ bk.frame_start <= bk.frame_end) =>
        LET last == LocationWrites[Len(LocationWrites)]
            span == bk.frame_end - bk.frame_start
        IN  /\ LocationWrites # <<>>
            /\ last = bk.frame_start + (span \div BakeStep) * BakeStep
            /\ (last = bk.frame_end) <=> (span % BakeStep = 0)
            /\ (bk.fn = "setup_camera_tracking" /\ bk.frame_start = 1
                    /\ bk.frame_end = DEFAULT_FRAME_END) =>
                   /\ last = 246
                   /\ DEFAULT_FRAME_END \notin KeyedFrames(anim[bk.camera])

C4_Witness ==
    /\ BakeReturned
    /\ bk.fn = "setup_camera_tracking"
    /\ bk.frame_start = 1 /\ bk.frame_end = DEFAULT_FRAME_END
    /\ 246 \in DOMAIN anim[TikTokCamera].location
    /\ Len(LocationWrites) = 50

\* C5 as stated: a bake called with frame_start > frame_end does not return
\* normally (it raises an InvalidRangeError) and writes no keyframe.
C5_InvalidRangeRaises ==
    (bk.fn = "setup_camera_tracking" /\ bk.pc = "idle"
        /\ bk.frame_start > bk.frame_end) =>
        /\ bk.outcome = "raised"
        /\ bk.keylog = <<>>

\* C6: a bake on a camera that already carries a track replaces it: after the
\* bake the track holds exactly the keyframes of this call, and its length is
\* this call's sample count.
C6_RebakeReplacesTrack ==
    (BakeReturned /\ bk.prior_frames # {}) =>
        /\ DOMAIN anim[bk.camera].location = SeqSet(LocationWrites)
        /\ DOMAIN anim[bk.camera].rotation_euler = SeqSet(RotationWrites)
        /\ Cardinality(KeyedFrames(anim[bk.camera])) = Len(LocationWrites)
        /\ anim[bk.camera].exists = (bk.keylog # <<>>)

C6_Witness ==
    /\ BakeReturned
    /\ bk.fn = "setup_camera_tracking"
    /\ bk.prior_frames = {1, 6, 11}
    /\ bk.frame_start = 2 /\ bk.frame_end = 8
    /\ KeyedFrames(anim[TikTokCamera]) = {2, 7}

\* C7: a joint target whose joint is not in the rig's joint table resolves to
\* the position the node has as a plain object target at the same frame, at
\* every sampled frame, without an error.
C7_MissingJointResolvesAsObject ==
    (bk.pc = "place" /\ bk.bone_name # NoBone
        /\ bk.bone_name \notin PoseBones(bk.target)) =>
        bk.target_loc = ObjectWorldLocation(bk.target, frame_current)

C7_Witness ==
    /\ bk.pc = "place"
    /\ bk.fn = "setup_camera_tracking"
    /\ bk.target = "Armature"
    /\ bk.bone_name = "mixamorig:Head"
    /\ frame_current = 11
    /\ bk.target_loc = Vec(0, 1, 0)

-----------------------------------------------------------------------------
(* Export Orchestrator: render_to_mp4 and the render command.              *)

\* a path is the sequence of its components; an absolute path starts at "/"
Cwd == <<"/", "work">>
RelativeOutput == <<"renders", "clip.mp4">>
BlendFile == <<"scenes", "shot.blend">>
OutputPaths == {RelativeOutput, Cwd \o RelativeOutput}

\* Path.resolve(): a relative path is taken from the working directory
Resolve(path) == IF path[1] = "/" THEN path ELSE Cwd \o path

\* blend_file.with_suffix(".mp4")
WithSuffixMp4(path) ==
    [path EXCEPT ![Len(path)] = IF @ = "shot.blend" THEN "shot.mp4" ELSE @]

Parent(path) == SubSeq(path, 1, Len(path) - 1)

\* path.parent.mkdir(parents=True, exist_ok=True)
Mkdir(f, dir) ==
    [f EXCEPT !.dirs = @ \cup {SubSeq(dir, 1, n) : n \in 1 .. Len(dir)}]

Exists(f, path) == path \in DOMAIN f.files

WriteFile(f, path, size) ==
    [f EXCEPT !.files = [q \in (DOMAIN @) \cup {path} |->
                            IF q = path THEN size ELSE @[q]]]

Qualities == {"high", "medium", "low", "ultra"}
FrameRates == {24, 30}
ExportStarts == {<<>>, <<2>>}
ExportEnds == {<<>>, <<5>>}

\* quality_settings
quality_settings_low_as_medium ==
    [q \in {"high", "medium", "low"} |->
        IF q = "high" THEN [bitrate |-> 8000, gop |-> 12]
        ELSE [bitrate |-> 4000, gop |-> 15]]

\* quality_settings: the bitrate (kbps) and the GOP size of each quality
quality_settings ==
    [q \in {"high", "medium", "low"} |->
        IF q = "high" THEN [bitrate |-> 8000, gop |-> 12]
        ELSE IF q = "medium" THEN [bitrate |-> 4000, gop |-> 15]
        ELSE [bitrate |-> 2000, gop |-> 18]]

CoerceQuality_default_high(quality) ==
    IF quality \in DOMAIN quality_settings THEN quality ELSE "high"

\* if quality not in quality_settings: quality = "medium"
CoerceQuality(quality) ==
    IF quality \in DOMAIN quality_settings THEN quality ELSE "medium"

\* 'HIGH' if quality == 'high' else 'MEDIUM' if quality == 'medium' else 'LOW'
ConstantRateFactor(quality) ==
    IF quality = "high" THEN "HIGH"
    ELSE IF quality = "medium" THEN "MEDIUM" ELSE "LOW"

DefaultFrame_factory(arg, scene_value) ==
    IF arg = <<>> THEN DEFAULT_FRAME_START ELSE arg[1]

\* frame_start / frame_end default to the scene's own
DefaultFrame(arg, scene_value) == IF arg = <<>> THEN scene_value ELSE arg[1]

\* scene settings a project can hold when the export starts
FactoryConfig ==
    [media_type |-> "IMAGE", file_format |-> "PNG", ffmpeg_format |-> "MKV",
     codec |-> "H264", constant_rate_factor |-> "MEDIUM",
     ffmpeg_preset |-> "GOOD", video_bitrate |-> 6000, gopsize |-> 18,
     audio_codec |-> "NONE", audio_bitrate |-> 192, fps |-> 24, fps_base |-> 1,
     filepath |-> <<"/", "tmp">>, frame_start |-> 1, frame_end |-> 250,
     resolution_x |-> 1080, resolution_y |-> 1920]

StudioConfig ==
    [media_type |-> "IMAGE", file_format |-> "OPEN_EXR", ffmpeg_format |-> "WEBM",
     codec |-> "WEBM", constant_rate_factor |-> "LOSSLESS",
     ffmpeg_preset |-> "BEST", video_bitrate |-> 9000, gopsize |-> 25,
     audio_codec |-> "OPUS", audio_bitrate |-> 128, fps |-> 25, fps_base |-> 1,
     filepath |-> <<"/", "work", "frames">>, frame_start |-> 1, frame_end |-> 48,
     resolution_x |-> 1920, resolution_y |-> 1080]

\* the factory scene after an earlier export at medium quality and 24 fps
ExportedConfig ==
    [FactoryConfig EXCEPT !.ffmpeg_format = "MPEG4", !.video_bitrate = 4000,
                          !.gopsize = 15, !.audio_codec = "AAC"]

InitialConfigs == {FactoryConfig, StudioConfig, ExportedConfig}

NoFiles == [q \in {} |-> 0]
EmptyDisk == [dirs |-> {<<"/">>, Cwd}, files |-> NoFiles]
\* a disk that already holds an output of an earlier run
UsedDisk == WriteFile(Mkdir(EmptyDisk, Parent(Resolve(RelativeOutput))),
                      Resolve(RelativeOutput), 7)
InitialDisks == {EmptyDisk, UsedDisk}

NoOriginal == [media_type |-> "", file_format |-> "", filepath |-> <<>>,
               frame_start |-> 0, frame_end |-> 0]

ExportIdle ==
    [pc |-> "idle", caller |-> "none",
     arg_quality |-> "", quality |-> "", fps |-> 0,
     arg_frame_start |-> <<>>, arg_frame_end |-> <<>>,
     frame_start |-> 0, frame_end |-> 0,
     settings |-> [bitrate |-> 0, gop |-> 0],
     output_path |-> <<>>, original |-> NoOriginal,
     warned |-> FALSE, exc |-> "none", outcome |-> "none",
     exit_code |-> <<>>, encodes |-> <<>>, encode_raised |-> FALSE,
     report |-> "none", precondition |-> "met",
     pre |-> FactoryConfig]

\* the command a process runs: create and render of project2, main() of
\* week2_ex2_camera_follow.py and of week1_ex3_character_stub.py
CommandIdle ==
    [pc |-> "start", name |-> "none", path_exists |-> TRUE, created |-> {},
     armature |-> <<>>, target |-> <<>>, bone |-> NoBone,
     start_frame |-> DEFAULT_FRAME_START, end_frame |-> DEFAULT_FRAME_START,
     warned |-> {}, error |-> "none", exit_code |-> <<>>]

\* the scene, the disk and the activation record one export works on
World(r, f, e) == [rc |-> r, fs |-> f, ex |-> e]

\* render_to_mp4(output_path, fps, quality, frame_start, frame_end) up to
\* the try statement's snapshot: defaults, quality coercion, settings lookup
EnterRenderToMp4(w, caller, output_path, fps, quality, frame_start, frame_end) ==
    [w EXCEPT !.ex =
        [ExportIdle EXCEPT
            !.pc = "snapshot", !.caller = caller,
            !.arg_quality = quality,
            !.quality = CoerceQuality(quality),
            !.warned = (quality \notin DOMAIN quality_settings),
            !.fps = fps,
            !.arg_frame_start = frame_start,
            !.arg_frame_end = frame_end,
            !.frame_start = DefaultFrame(frame_start, w.rc.frame_start),
            !.frame_end = DefaultFrame(frame_end, w.rc.frame_end),
            !.settings = quality_settings[CoerceQuality(quality)],
            !.output_path = output_path,
            !.outcome = "running",
            !.pre = w.rc]]

\* original_media_type = ... ; original_end = scene.frame_end
Snapshot(w) ==
    [w EXCEPT !.ex.pc = "configure",
              !.ex.original = [media_type |-> w.rc.media_type,
                               file_format |-> w.rc.file_format,
                               filepath |-> w.rc.filepath,
                               frame_start |-> w.rc.frame_start,
                               frame_end |-> w.rc.frame_end]]

\* the first k assignments of a block take effect
RECURSIVE ApplyPrefix(_, _, _)
ApplyPrefix(r, assigns, k) ==
    IF k = 0 THEN r
    ELSE [ApplyPrefix(r, assigns, k - 1) EXCEPT ![assigns[k][1]] = assigns[k][2]]

\* a block of assignments inside the try statement: all of them take effect,
\* or statement k + 1 raises after the first k took effect
AssignBlock(w, assigns, k, next_pc) ==
    [w EXCEPT !.rc = ApplyPrefix(w.rc, assigns, k),
              !.ex.pc = IF k = Len(assigns) THEN next_pc ELSE "except"]

OutputAssigns ==
    << <<"media_type", "VIDEO">>, <<"file_format", "FFMPEG">>,
       <<"ffmpeg_format", "MPEG4">>, <<"codec", "H264">> >>

QualityAssigns(quality, settings) ==
    << <<"constant_rate_factor", ConstantRateFactor(quality)>>,
       <<"ffmpeg_preset", "GOOD">>,
       <<"video_bitrate", settings.bitrate>>,
       <<"gopsize", settings.gop>> >>

AudioAssigns == << <<"audio_codec", "AAC">>, <<"audio_bitrate", 192>> >>

FrameRateAssigns(fps) == << <<"fps", fps>>, <<"fps_base", 1>> >>

RangeAssigns(frame_start, frame_end) ==
    << <<"frame_start", frame_start>>, <<"frame_end", frame_end>> >>

ConfigureOutput(w, k) == AssignBlock(w, OutputAssigns, k, "quality")
ConfigureQuality(w, k) ==
    AssignBlock(w, QualityAssigns(w.ex.quality, w.ex.settings), k, "audio")
ConfigureAudio(w, k) == AssignBlock(w, AudioAssigns, k, "fps")
ConfigureFrameRate(w, k) == AssignBlock(w, FrameRateAssigns(w.ex.fps), k, "output")
ConfigureRange(w, k) ==
    AssignBlock(w, RangeAssigns(w.ex.frame_start, w.ex.frame_end), k, "encode")

ConfigureOutputPath_relative(w, k) ==
    [w EXCEPT
        !.fs = IF k >= 2 THEN Mkdir(@, Parent(Resolve(w.ex.output_path))) ELSE @,
        !.rc.filepath = IF k >= 3 THEN w.ex.output_path ELSE @,
        !.ex.pc = IF k = 3 THEN "range" ELSE "except"]

\* output_path = output_path.resolve(); parent.mkdir(...); scene.render.filepath
\* = str(output_path): statement k + 1 raises, or all three take effect
ConfigureOutputPath(w, k) ==
    LET resolved == Resolve(w.ex.output_path)
    IN  [w EXCEPT
            !.ex.output_path = IF k >= 1 THEN resolved ELSE @,
            !.fs = IF k >= 2 THEN Mkdir(@, Parent(resolved)) ELSE @,
            !.rc.filepath = IF k >= 3 THEN resolved ELSE @,
            !.ex.pc = IF k = 3 THEN "range" ELSE "except"]

EncodeOutcomes == {"raises", "writes the file", "writes nothing", "writes an empty file"}

\* bpy.ops.render.render(animation=True, write_still=False): the host encodes
\* the scene's frame range to the scene's filepath, or fails
Encode(w, how) ==
    LET frames == w.rc.frame_end - w.rc.frame_start + 1
        called == [w EXCEPT !.ex.encodes = Append(@, w.rc)]
    IN  IF how = "raises"
        THEN [called EXCEPT !.ex.pc = "except", !.ex.encode_raised = TRUE]
        ELSE IF how = "writes the file"
        THEN [called EXCEPT !.ex.pc = "report",
                            !.fs = WriteFile(@, w.rc.filepath, frames)]
        ELSE IF how = "writes an empty file"
        THEN [called EXCEPT !.ex.pc = "report",
                            !.fs = WriteFile(@, w.rc.filepath, 0)]
        ELSE [called EXCEPT !.ex.pc = "report"]

\* "MP4 rendered successfully"; the file size if output_path.exists(), else
\* the warning that the output file was not found
Report(w) ==
    [w EXCEPT !.ex.pc = "finally",
              !.ex.report = IF Exists(w.fs, w.ex.output_path)
                            THEN "file size" ELSE "file not found"]

Except_swallow(w) == [w EXCEPT !.ex.pc = "finally"]

\* except Exception as e: raise typer.Exit(code=1)
Except(w) == [w EXCEPT !.ex.pc = "finally", !.ex.exc = "Exit(1)"]

Restore_without_frame_range(w) ==
    [w EXCEPT !.ex.pc = "leave",
              !.rc.media_type = w.ex.original.media_type,
              !.rc.file_format = w.ex.original.file_format,
              !.rc.filepath = w.ex.original.filepath]

\* finally: the five snapshotted fields get their original values back
Restore(w) ==
    [w EXCEPT !.ex.pc = "leave",
              !.rc.media_type = w.ex.original.media_type,
              !.rc.file_format = w.ex.original.file_format,
              !.rc.filepath = w.ex.original.filepath,
              !.rc.frame_start = w.ex.original.frame_start,
              !.rc.frame_end = w.ex.original.frame_end]

Leave_original_rate_and_bitrate(w) ==
    [w EXCEPT !.ex.pc = "done",
              !.ex.outcome = IF w.ex.exc = "none" THEN "returned" ELSE "raised",
              !.ex.exit_code = IF w.ex.caller # "render" THEN <<>>
                               ELSE IF w.ex.exc = "none" THEN <<0>>
                               ELSE <<EXPORT_FAILED_EXIT>>,
              !.rc.fps = w.ex.pre.fps,
              !.rc.video_bitrate = w.ex.pre.video_bitrate]

\* return output_path, or the pending typer.Exit leaves the function; under the
\* render command the process then ends with status 0, or with the Exit's code
Leave(w) ==
    IF w.ex.exc = "none"
    THEN [w EXCEPT !.ex.pc = "done", !.ex.outcome = "returned",
                   !.ex.exit_code = IF w.ex.caller = "render" THEN <<0>> ELSE <<>>]
    ELSE [w EXCEPT !.ex.pc = "done", !.ex.outcome = "raised",
                   !.ex.exit_code = IF w.ex.caller = "render"
                                    THEN <<EXPORT_FAILED_EXIT>> ELSE <<>>]

\* what the environment decides at each step of render_to_mp4
Choices(pc) ==
    IF pc \in {"configure", "quality"} THEN 0 .. 4
    ELSE IF pc \in {"audio", "fps", "range"} THEN 0 .. 2
    ELSE IF pc = "output" THEN 0 .. 3
    ELSE IF pc = "encode" THEN EncodeOutcomes
    ELSE {0}

\* one step of render_to_mp4 from its program counter
ExportStep(w, c) ==
    CASE w.ex.pc = "snapshot"  -> Snapshot(w)
      [] w.ex.pc = "configure" -> ConfigureOutput(w, c)
      [] w.ex.pc = "quality"   -> ConfigureQuality(w, c)
      [] w.ex.pc = "audio"     -> ConfigureAudio(w, c)
      [] w.ex.pc = "fps"       -> ConfigureFrameRate(w, c)
      [] w.ex.pc = "output"    -> ConfigureOutputPath(w, c)
      [] w.ex.pc = "range"     -> ConfigureRange(w, c)
      [] w.ex.pc = "encode"    -> Encode(w, c)
      [] w.ex.pc = "report"    -> Report(w)
      [] w.ex.pc = "except"    -> Except(w)
      [] w.ex.pc = "finally"   -> Restore(w)
      [] w.ex.pc = "leave"     -> Leave(w)

Here == World(rc, fs, ex)
Commit(w) == rc' = w.rc /\ fs' = w.fs /\ ex' = w.ex

ExportInit ==
    /\ rc \in InitialConfigs
    /\ fs \in InitialDisks
    /\ ex = ExportIdle
    /\ rcB = rc /\ fsB = fs /\ exB = ExportIdle

\* a direct call of render_to_mp4; a process runs one export and ends
CallRenderToMp4 ==
    /\ ex.pc = "idle"
    /\ \E output_path \in OutputPaths, fps \in FrameRates, quality \in Qualities,
          frame_start \in ExportStarts, frame_end \in ExportEnds :
          Commit(EnterRenderToMp4(Here, "api", output_path, fps, quality,
                                  frame_start, frame_end))
    /\ UNCHANGED <<bakeVars, twinVars, cmd>>

ExitBeforeExport_status_zero(w, failure, code) ==
    [w EXCEPT !.ex = [ExportIdle EXCEPT !.pc = "done", !.caller = "render",
                                        !.outcome = "not called",
                                        !.precondition = failure,
                                        !.exit_code = <<0>>,
                                        !.pre = w.rc]]

\* raise typer.Exit(code) in load_blend_file or in render before the export is
\* called: the command ends with the code
ExitBeforeExport(w, failure, code) ==
    [w EXCEPT !.ex = [ExportIdle EXCEPT !.pc = "done", !.caller = "render",
                                        !.outcome = "not called",
                                        !.precondition = failure,
                                        !.exit_code = <<code>>,
                                        !.pre = w.rc]]

\* the render command: load the blend file, check the camera, export
RenderCommand ==
    /\ ex.pc = "idle"
    /\ cmd.pc = "start"
    /\ \E blend_exists \in BOOLEAN, loaded \in InitialConfigs,
          has_camera \in BOOLEAN, output \in {<<>>, <<RelativeOutput>>},
          fps \in FrameRates, quality \in Qualities,
          frame_start \in ExportStarts, frame_end \in ExportEnds :
          IF ~blend_exists
          THEN /\ Commit(ExitBeforeExport(Here, "blend not found",
                                          BLEND_NOT_FOUND_EXIT))
               /\ cmd' = [CommandIdle EXCEPT !.pc = "render", !.name = "render",
                                             !.path_exists = FALSE,
                                             !.error = "not found"]
          ELSE /\ cmd' = [CommandIdle EXCEPT !.pc = "render", !.name = "render"]
               /\ IF ~has_camera
                  THEN Commit(ExitBeforeExport(
                           [Here EXCEPT !.rc = loaded,
                                        !.fs = Mkdir(@, Parent(Resolve(BlendFile)))],
                           "no camera", NO_CAMERA_EXIT))
                  ELSE Commit(EnterRenderToMp4(
                           [Here EXCEPT !.rc = loaded,
                                        !.fs = Mkdir(@, Parent(Resolve(BlendFile)))],
                           "render",
                           IF output = <<>> THEN WithSuffixMp4(BlendFile)
                           ELSE output[1],
                           fps, quality, frame_start, frame_end))
    /\ UNCHANGED <<bakeVars, twinVars>>

SnapshotOriginals ==
    /\ ex.pc = "snapshot"
    /\ \E c \in Choices("snapshot") : Commit(ExportStep(Here, c))
    /\ UNCHANGED <<bakeVars, twinVars, cmd>>

ApplyOutputFormat ==
    /\ ex.pc = "configure"
    /\ \E c \in Choices("configure") : Commit(ExportStep(Here, c))
    /\ UNCHANGED <<bakeVars, twinVars, cmd>>

ApplyQuality ==
    /\ ex.pc = "quality"
    /\ \E c \in Choices("quality") : Commit(ExportStep(Here, c))
    /\ UNCHANGED <<bakeVars, twinVars, cmd>>

ApplyAudio ==
    /\ ex.pc = "audio"
    /\ \E c \in Choices("audio") : Commit(ExportStep(Here, c))
    /\ UNCHANGED <<bakeVars, twinVars, cmd>>

ApplyFrameRate ==
    /\ ex.pc = "fps"
    /\ \E c \in Choices("fps") : Commit(ExportStep(Here, c))
    /\ UNCHANGED <<bakeVars, twinVars, cmd>>

ApplyOutputPath ==
    /\ ex.pc = "output"
    /\ \E c \in Choices("output") : Commit(ExportStep(Here, c))
    /\ UNCHANGED <<bakeVars, twinVars, cmd>>

ApplyFrameRange ==
    /\ ex.pc = "range"
    /\ \E c \in Choices("range") : Commit(ExportStep(Here, c))
    /\ UNCHANGED <<bakeVars, twinVars, cmd>>

RenderAnimation ==
    /\ ex.pc = "encode"
    /\ \E c \in Choices("encode") : Commit(ExportStep(Here, c))
    /\ UNCHANGED <<bakeVars, twinVars, cmd>>

ReportResult ==
    /\ ex.pc = "report"
    /\ \E c \in Choices("report") : Commit(ExportStep(Here, c))
    /\ UNCHANGED <<bakeVars, twinVars, cmd>>

HandleException ==
    /\ ex.pc = "except"
    /\ \E c \in Choices("except") : Commit(ExportStep(Here, c))
    /\ UNCHANGED <<bakeVars, twinVars, cmd>>

RestoreOriginals ==
    /\ ex.pc = "finally"
    /\ \E c \in Choices("finally") : Commit(ExportStep(Here, c))
    /\ UNCHANGED <<bakeVars, twinVars, cmd>>

LeaveRenderToMp4 ==
    /\ ex.pc = "leave"
    /\ \E c \in Choices("leave") : Commit(ExportStep(Here, c))
    /\ UNCHANGED <<bakeVars, twinVars, cmd>>

ExportNext ==
    \/ CallRenderToMp4
    \/ RenderCommand
    \/ SnapshotOriginals
    \/ ApplyOutputFormat
    \/ ApplyQuality
    \/ ApplyAudio
    \/ ApplyFrameRate
    \/ ApplyOutputPath
    \/ ApplyFrameRange
    \/ RenderAnimation
    \/ ReportResult
    \/ HandleException
    \/ RestoreOriginals
    \/ LeaveRenderToMp4

-----------------------------------------------------------------------------
(* Two exports side by side: the same call on the same scene and disk, one *)
(* with an unrecognized quality and one with "medium", under the same      *)
(* decisions of the environment.                                           *)

HereB == World(rcB, fsB, exB)
CommitB(w) == rcB' = w.rc /\ fsB' = w.fs /\ exB' = w.ex

TwinCall ==
    /\ ex.pc = "idle" /\ exB.pc = "idle"
    /\ \E output_path \in OutputPaths, fps \in FrameRates,
          quality \in Qualities \ DOMAIN quality_settings,
          frame_start \in ExportStarts, frame_end \in ExportEnds :
          /\ Commit(EnterRenderToMp4(Here, "api", output_path, fps, quality,
                                     frame_start, frame_end))
          /\ CommitB(EnterRenderToMp4(HereB, "api", output_path, fps, "medium",
                                      frame_start, frame_end))
    /\ UNCHANGED <<bakeVars, cmd>>

TwinStep ==
    /\ ex.pc \notin {"idle", "done"}
    /\ exB.pc = ex.pc
    /\ \E c \in Choices(ex.pc) :
          /\ Commit(ExportStep(Here, c))
          /\ CommitB(ExportStep(HereB, c))
    /\ UNCHANGED <<bakeVars, cmd>>

TwinNext == TwinCall \/ TwinStep

\* each element is below the next one
StrictlyIncreasing(frames) ==
    \A i \in 1 .. Len(frames) - 1 : frames[i] < frames[i + 1]

\* C16: the keyframes of one bake are written in strictly increasing frame
\* order on each data path, so no frame is keyed twice within the bake, and
\* every written frame is a key of the camera's track.
C16_KeyframesWrittenInIncreasingOrder ==
    /\ StrictlyIncreasing(LocationWrites)
    /\ StrictlyIncreasing(RotationWrites)
    /\ SeqSet(LocationWrites) \subseteq DOMAIN anim[bk.camera].location
    /\ SeqSet(RotationWrites) \subseteq DOMAIN anim[bk.camera].rotation_euler

C16_Witness ==
    /\ BakeReturned
    /\ bk.fn = "bake_camera_animation"
    /\ Len(LocationWrites) = 18
    /\ LocationWrites[1] = 1
    /\ LocationWrites[2] = 11
    /\ LocationWrites[18] = 171
    /\ RotationWrites = LocationWrites

\* the position the running bake's resolver gives with the timeline at f
TargetAt(f) ==
    IF bk.fn = "setup_camera_tracking"
    THEN ResolveTarget(bk.target, bk.bone_name, f)
    ELSE IF bk.fn = "bake_camera_animation"
    THEN world_location(bk.target, bk.bone_name, f)
    ELSE CharacterTranslation(bk.target, f)

\* C18: for every keyframe a bake has written at a frame f, the keyed
\* orientation is the look-at orientation of the direction from the camera
\* position keyed at f to the target position resolved at f.
C18_OrientationFromSameFramePositions ==
    \A f \in SeqSet(RotationWrites) :
        /\ f \in DOMAIN anim[bk.camera].rotation_euler
        /\ f \in DOMAIN anim[bk.camera].location
        /\ anim[bk.camera].rotation_euler[f] =
               TrackEuler(VecSub(TargetAt(f), anim[bk.camera].location[f]))

C18_Witness ==
    /\ BakeReturned
    /\ bk.fn = "bake_camera_animation"
    /\ bk.target = "Cube"
    /\ 11 \in SeqSet(RotationWrites)
    /\ anim[FollowCam].location[11] = Vec(2, -6, 1)
    /\ anim[FollowCam].rotation_euler[11] = Vec(0, 2, -3)
    /\ anim[FollowCam].rotation_euler[1] = Vec(0, 1, -1)

\* C19: resolving a target, a plain node or a joint on a rig, has no side
\* effect: the step leaves the timeline, every animation track, the camera
\* poses, the target and the joint name as they were, so that resolving again
\* in the state it leaves returns the position it returned.
C19_ResolveHasNoSideEffect ==
    [][ bk.pc = "resolve" =>
           /\ frame_current' = frame_current
           /\ anim' = anim
           /\ pose' = pose
           /\ rc' = rc
           /\ bk'.target = bk.target
           /\ bk'.bone_name = bk.bone_name
           /\ bk'.target_loc = TargetAt(frame_current)
           /\ bk'.target_loc = TargetAt(frame_current)' ]_vars

C19_Witness ==
    /\ bk.pc = "place"
    /\ bk.fn = "setup_camera_tracking"
    /\ bk.target = "Armature"
    /\ bk.bone_name = TARGET_BONE_NAME
    /\ frame_current = 7
    /\ bk.target_loc = Vec(0, 1, 2)
    /\ bk.resolves = <<[frame |-> 2, at |-> 2], [frame |-> 7, at |-> 7]>>

\* C20: no step of a bake, from its call to its return, changes the animation
\* track of an object other than the camera given to it (the target's own
\* track and the other cameras' tracks stay as they were), the pose of
\* another camera, or the Render Configuration.
C20_BakeWritesOnlyCameraTrack ==
    [][ /\ \A o \in Objects \ {bk'.camera} : anim'[o] = anim[o]
        /\ \A c \in Cameras \ {bk'.camera} : pose'[c] = pose[c]
        /\ rc' = rc ]_vars

C20_Witness ==
    /\ BakeReturned
    /\ bk.fn = "setup_camera_tracking"
    /\ bk.target = "Cube"
    /\ LocationWrites = <<1, 6, 11>>
    /\ DOMAIN anim[TikTokCamera].location = {1, 6, 11}
    /\ bk.prior_frames = {2, 7}
    /\ anim["Cube"] = TargetAnimation("Cube")
    /\ anim["Armature"] = TargetAnimation("Armature")
    /\ anim[FollowCam] = NoAnimation
    /\ rc = FactoryConfig

\* the displacement each bake loop adds to the target position
BakeOffset(fn) ==
    IF fn = "setup_camera_tracking"
    THEN Vec(0, -CAMERA_DISTANCE, CAMERA_HEIGHT_OFFSET)
    ELSE IF fn = "bake_camera_animation"
    THEN Vec(0, FOLLOW_Y_OFFSET, FOLLOW_Z_OFFSET)
    ELSE Vec(0, CHARACTER_Y_OFFSET, CHARACTER_Z_OFFSET)

\* the lowest camera height of each bake loop that has one
BakeFloor(fn) ==
    IF fn = "bake_camera_animation" THEN FOLLOW_MIN_Z ELSE CHARACTER_MIN_Z

\* C22: at every keyframe a bake has written, the keyed camera position is
\* the target position at that frame plus the loop's constant offset
\* (0, -distance, +height), whatever the target position, in every bake loop.
C22_ConstantOffsetEverywhere ==
    \A f \in SeqSet(LocationWrites) :
        /\ f \in DOMAIN anim[bk.camera].location
        /\ anim[bk.camera].location[f] = VecAdd(TargetAt(f), BakeOffset(bk.fn))

\* C22, amended: at every keyframe a bake has written, the keyed camera
\* position has the target's x and the target's y minus the fixed distance;
\* its z is the target's z plus the fixed height offset in
\* setup_camera_tracking, and the larger of that sum and 0.5 in
\* bake_camera_animation and in week1's setup_camera.
C22_ConstantOffsetWithFloorInExercises ==
    \A f \in SeqSet(LocationWrites) :
        /\ f \in DOMAIN anim[bk.camera].location
        /\ LET t == TargetAt(f)
               o == BakeOffset(bk.fn)
               c == anim[bk.camera].location[f]
           IN  /\ c[1] = t[1]
               /\ c[2] = t[2] + o[2]
               /\ c[3] = IF bk.fn = "setup_camera_tracking"
                         THEN t[3] + o[3]
                         ELSE Max(t[3] + o[3], BakeFloor(bk.fn))

C22_Witness ==
    /\ BakeReturned
    /\ bk.fn = "bake_camera_animation"
    /\ bk.target = "Cube"
    /\ TargetAt(1) = Vec(2, 0, 2)
    /\ anim[FollowCam].location[1] = Vec(2, -6, 8)
    /\ TargetAt(11) = Vec(2, 0, -8)
    /\ anim[FollowCam].location[11] = Vec(2, -6, 1)

\* the look-at solver has been called in the running bake
SolverCalled == bk.pc \in {"key_location", "key_rotation"} \/ bk.keylog # <<>>

\* C23: during any bake the look-at solver is never called with a zero
\* direction: the direction from the camera just placed to the target
\* resolved at the sampled frame is non-zero at every sampled frame, for every
\* target position, so the solver's default orientation is never keyed.
C23_SolverNeverGetsZeroDirection ==
    /\ bk.pc = "orient" =>
           LookDirection(bk.target_loc, pose[bk.camera].location) # Vec(0, 0, 0)
    /\ SolverCalled =>
           /\ bk.direction # Vec(0, 0, 0)
           /\ bk.direction[2] = -BakeOffset(bk.fn)[2]
    /\ \A f \in SeqSet(RotationWrites) :
           f \in DOMAIN anim[bk.camera].rotation_euler
               => anim[bk.camera].rotation_euler[f] # TrackEuler(Vec(0, 0, 0))

C23_Witness ==
    /\ BakeReturned
    /\ bk.fn = "setup_camera_tracking"
    /\ bk.target = "Armature"
    /\ bk.bone_name = TARGET_BONE_NAME
    /\ Len(RotationWrites) = 3
    /\ bk.direction = Vec(0, 5, -3)
    /\ pose[TikTokCamera].location = VecAdd(bk.target_loc, Vec(0, -5, 3))

\* the loop is between two iterations, or has ended
BetweenIterations == bk.fn # "none" /\ bk.pc \in {"loop", "idle"}

\* C24: every keyframe of a baked track is a complete pose: between two
\* iterations and after any bake the frames that carry a location key are
\* the frames that carry a rotation key, and both keys of a sampled frame,
\* the location first, are written before the timeline is set to the next
\* sampled frame.
C24_EveryKeyframeIsCompletePose ==
    LET track == anim[bk.camera]
        n == Len(bk.frame_sets)
    IN  /\ BetweenIterations =>
               /\ DOMAIN track.location = DOMAIN track.rotation_euler
               /\ Len(bk.keylog) = 2 * n
        /\ \A i \in 1 .. n :
               (i < n \/ BetweenIterations) =>
                   /\ bk.frame_sets[i] \in DOMAIN track.location
                   /\ bk.frame_sets[i] \in DOMAIN track.rotation_euler
                   /\ 2 * i <= Len(bk.keylog)
        /\ \A i \in 1 .. Len(bk.keylog) :
               /\ bk.keylog[i].path =
                      IF i % 2 = 1 THEN "location" ELSE "rotation_euler"
               /\ (i + 1) \div 2 <= n
               /\ (i + 1) \div 2 <= n =>
                      bk.keylog[i].frame = bk.frame_sets[(i + 1) \div 2]

C24_Witness ==
    /\ BakeReturned
    /\ bk.fn = "setup_camera"
    /\ bk.target = "Cube"
    /\ Len(bk.keylog) = 18
    /\ DOMAIN anim[FollowCamera].location = {1, 11, 21, 31, 41, 51, 61, 71, 81}
    /\ DOMAIN anim[FollowCamera].rotation_euler = DOMAIN anim[FollowCamera].location
    /\ frame_current = 81

-----------------------------------------------------------------------------
(* The commands and scripts: a process runs one of them from its start.    *)

\* the objects a file can hold
ImportContents == SUBSET Nodes
\* --end given on the command line, or not
CreateEnds == {<<>>} \cup {<<e>> : e \in 0 .. MaxEnd}
\* int(armature.animation_data.action.frame_range[1]), when there is an action
ActionEnds == {<<>>, <<MaxEnd - 4>>}

import_fbx_unchecked(path_exists, contents) ==
    [raised |-> FALSE, objects |-> contents]

\* import_fbx(fbx_path): typer.Exit before anything is imported when the path
\* does not exist, else the objects the import added to bpy.data.objects
import_fbx(path_exists, contents) ==
    IF ~path_exists
    THEN [raised |-> TRUE, objects |-> {}]
    ELSE [raised |-> FALSE, objects |-> contents]

\* week1 import_character(asset_path): the selected objects of the import and
\* the first of them (the active object, the floor plane, when there is none),
\* or a placeholder monkey when the path does not exist
import_character(path_exists, selected) ==
    IF path_exists
    THEN [raised |-> FALSE, objects |-> selected,
          character |-> IF selected = {} THEN {Plane} ELSE selected]
    ELSE [raised |-> FALSE, objects |-> {ProxyCharacter},
          character |-> {ProxyCharacter}]

\* find_armature(imported_objects): the objects the for loop can return
find_armature(imported_objects) ==
    {obj \in imported_objects : NodeType(obj) = "ARMATURE"}

FirstImported_none(imported_objects) == {}

\* imported_objects[0] if imported_objects else None: list(set) has no fixed
\* order, so any imported object can be the first
FirstImported(imported_objects) == imported_objects

\* week2 get_target_adapter(): the Armature of the scene with the hip bone,
\* else the proxy target
get_target_adapter(objects) ==
    IF "Armature" \in objects
    THEN [obj |-> "Armature", bone_name |-> TARGET_BONE_NAME]
    ELSE [obj |-> ProxyRig, bone_name |-> NoBone]

\* read_factory_settings(use_empty=True) and the import: no camera is posed
\* or animated, the imported objects bring their animation
SceneTracks(objects) ==
    [o \in Objects |-> IF o \in objects THEN TargetAnimation(o) ELSE NoAnimation]

\* the activation record at the call of a bake
EnterBake(fn, pc, camera, target, bone_name, frame_start, frame_end, track) ==
    [BakeIdle EXCEPT !.pc = pc, !.fn = fn, !.camera = camera,
                     !.target = target, !.bone_name = bone_name,
                     !.frame_start = frame_start, !.frame_end = frame_end,
                     !.next = frame_start, !.outcome = "running",
                     !.prior_frames = KeyedFrames(track)]

\* create: reset_scene(), then import_fbx(fbx_file)
CreateImport ==
    /\ cmd.pc = "start"
    /\ \E path_exists \in BOOLEAN, contents \in ImportContents :
          LET r == import_fbx(path_exists, contents)
          IN  /\ cmd' = IF r.raised
                        THEN [CommandIdle EXCEPT
                                 !.pc = "done", !.name = "create",
                                 !.path_exists = path_exists,
                                 !.error = "not found",
                                 !.exit_code = <<FBX_NOT_FOUND_EXIT>>]
                        ELSE [CommandIdle EXCEPT
                                 !.pc = "find", !.name = "create",
                                 !.path_exists = path_exists,
                                 !.created = r.objects]
              /\ anim' = SceneTracks(r.objects)
    /\ rc' = FactoryConfig
    /\ frame_current' = 1
    /\ pose' = InitPose
    /\ UNCHANGED <<bk, fs, ex, twinVars>>

\* create: the armature of the import, else the first imported object, else
\* typer.Exit
CreateFindTarget ==
    /\ cmd.name = "create" /\ cmd.pc = "find"
    /\ IF find_armature(cmd.created) # {}
       THEN \E armature \in find_armature(cmd.created), bone \in BoneNames :
               cmd' = [cmd EXCEPT !.pc = "range", !.armature = <<armature>>,
                                  !.target = <<armature>>, !.bone = bone]
       ELSE IF FirstImported(cmd.created) = {}
       THEN cmd' = [cmd EXCEPT !.pc = "done",
                               !.warned = @ \cup {"no armature"},
                               !.error = "no objects",
                               !.exit_code = <<NO_OBJECTS_EXIT>>]
       ELSE \E target \in FirstImported(cmd.created) :
               cmd' = [cmd EXCEPT !.pc = "range",
                                  !.warned = @ \cup {"no armature"},
                                  !.target = <<target>>, !.bone = NoBone]
    /\ UNCHANGED <<bakeVars, exportVars, twinVars>>

\* create: the end frame defaults to the end of the armature's action, else
\* to 250; the scene takes the frame range
CreateFrameRange ==
    /\ cmd.name = "create" /\ cmd.pc = "range"
    /\ \E start_frame \in StartFrames, end_frame \in CreateEnds,
          action_end \in ActionEnds :
          LET end == IF end_frame # <<>> THEN end_frame[1]
                     ELSE IF cmd.armature # <<>> /\ action_end # <<>>
                     THEN action_end[1]
                     ELSE CREATE_FALLBACK_END
          IN  /\ cmd' = [cmd EXCEPT !.pc = "camera",
                                    !.warned = IF end_frame = <<>>
                                                  /\ end = CREATE_FALLBACK_END
                                               THEN @ \cup {"no animation data"}
                                               ELSE @,
                                    !.start_frame = start_frame,
                                    !.end_frame = end]
              /\ rc' = [rc EXCEPT !.frame_start = start_frame, !.frame_end = end]
    /\ UNCHANGED <<bakeVars, fs, ex, twinVars>>

\* create: create_tiktok_camera(), then the call of setup_camera_tracking
CreateTrack ==
    /\ cmd.name = "create" /\ cmd.pc = "camera"
    /\ bk' = EnterBake("setup_camera_tracking", "clear", TikTokCamera,
                       cmd.target[1], cmd.bone, cmd.start_frame, cmd.end_frame,
                       anim[TikTokCamera])
    /\ cmd' = [cmd EXCEPT !.pc = "tracking"]
    /\ UNCHANGED <<frame_current, anim, pose, exportVars, twinVars>>

\* create: the lights, save_blend_file(output), and the command ends
CreateFinish ==
    /\ cmd.name = "create" /\ cmd.pc = "tracking"
    /\ bk.pc = "idle" /\ bk.outcome = "returned"
    /\ fs' = WriteFile(Mkdir(fs, Parent(Resolve(BlendFile))), Resolve(BlendFile), 1)
    /\ cmd' = [cmd EXCEPT !.pc = "done", !.exit_code = <<0>>]
    /\ UNCHANGED <<bakeVars, rc, ex, twinVars>>

\* week2 main(): reset_scene, clear_objects, get_target_adapter, the lights,
\* setup_camera and the call of bake_camera_animation
RunCameraFollow ==
    /\ cmd.pc = "start"
    /\ LET target == get_target_adapter({})
       IN  /\ anim' = [SceneTracks({}) EXCEPT ![target.obj] = ProxyAnimation]
           /\ bk' = EnterBake("bake_camera_animation", "loop", FollowCam,
                              target.obj, target.bone_name,
                              FOLLOW_FRAME_START, FOLLOW_FRAME_END, NoAnimation)
           /\ cmd' = [CommandIdle EXCEPT !.pc = "tracking",
                                         !.name = "camera_follow",
                                         !.created = {target.obj},
                                         !.target = <<target.obj>>,
                                         !.bone = target.bone_name]
    /\ rc' = [FactoryConfig EXCEPT !.resolution_x = 1920, !.resolution_y = 1080,
                                   !.frame_start = FOLLOW_FRAME_START,
                                   !.frame_end = FOLLOW_FRAME_END]
    /\ frame_current' = 1
    /\ pose' = InitPose
    /\ UNCHANGED <<fs, ex, twinVars>>

\* week2 main(): save_as_mainfile, and the script ends
CameraFollowFinish ==
    /\ cmd.name = "camera_follow" /\ cmd.pc = "tracking"
    /\ bk.pc = "idle" /\ bk.outcome = "returned"
    /\ fs' = WriteFile(fs, Cwd \o <<"week2ex2.blend">>, 1)
    /\ cmd' = [cmd EXCEPT !.pc = "done", !.exit_code = <<0>>]
    /\ UNCHANGED <<bakeVars, rc, ex, twinVars>>

\* week1 main(): reset_scene, clear_objects, build_environment, then
\* import_character(CHARACTER_FBX)
CharacterImport ==
    /\ cmd.pc = "start"
    /\ \E path_exists \in BOOLEAN, selected \in ImportContents :
          LET r == import_character(path_exists, selected)
          IN  \E character \in r.character :
                 /\ cmd' = [CommandIdle EXCEPT !.pc = "camera",
                                               !.name = "character_stub",
                                               !.path_exists = path_exists,
                                               !.created = r.objects,
                                               !.target = <<character>>]
                 /\ anim' = SceneTracks(r.objects \cap Nodes)
    /\ rc' = [FactoryConfig EXCEPT !.resolution_x = 1920, !.resolution_y = 1080,
                                   !.frame_start = CHARACTER_FRAME_START,
                                   !.frame_end = CHARACTER_FRAME_END]
    /\ frame_current' = 1
    /\ pose' = InitPose
    /\ UNCHANGED <<bk, fs, ex, twinVars>>

\* week1 main(): animate_character, the lights, and setup_camera up to its
\* loop: the new camera is placed from target.location, which is the last beat
CharacterSetupCamera ==
    /\ cmd.name = "character_stub" /\ cmd.pc = "camera"
    /\ LET target_location == CharacterBeats[Len(CharacterBeats)].location
       IN  pose' = [pose EXCEPT ![FollowCamera].location =
                       Vec(0, target_location[2] + CHARACTER_Y_OFFSET,
                           target_location[3] + CHARACTER_Z_OFFSET)]
    /\ anim' = [anim EXCEPT ![cmd.target[1]] = CharacterAnimation]
    /\ bk' = EnterBake("setup_camera", "loop", FollowCamera, cmd.target[1],
                       NoBone, CHARACTER_FRAME_START, CHARACTER_FRAME_END,
                       NoAnimation)
    /\ cmd' = [cmd EXCEPT !.pc = "tracking"]
    /\ UNCHANGED <<frame_current, exportVars, twinVars>>

\* week1 main(): render_animation(prefix) and save_as_mainfile, and the
\* script ends
CharacterFinish ==
    /\ cmd.name = "character_stub" /\ cmd.pc = "tracking"
    /\ bk.pc = "idle" /\ bk.outcome = "returned"
    /\ frame_current' = frame_set(frame_current, CHARACTER_FRAME_START)
    /\ rc' = [rc EXCEPT !.filepath = Cwd \o <<"week1ex3_">>]
    /\ fs' = WriteFile(WriteFile(fs, Cwd \o <<"week1ex3_0001.png">>, 1),
                       Cwd \o <<"week1ex3.blend">>, 1)
    /\ cmd' = [cmd EXCEPT !.pc = "done", !.exit_code = <<0>>]
    /\ UNCHANGED <<anim, pose, bk, ex, twinVars>>

ScriptNext ==
    \/ CreateImport
    \/ CreateFindTarget
    \/ CreateFrameRange
    \/ CreateTrack
    \/ CreateFinish
    \/ RunCameraFollow
    \/ CameraFollowFinish
    \/ CharacterImport
    \/ CharacterSetupCamera
    \/ CharacterFinish
    \/ ClearExistingAnimation
    \/ BakeFrameSet
    \/ BakeResolve
    \/ BakePlace
    \/ BakeOrient
    \/ BakeKeyLocation
    \/ BakeKeyRotation
    \/ BakeReturn
    \/ RenderCommand
    \/ SnapshotOriginals
    \/ ApplyOutputFormat
    \/ ApplyQuality
    \/ ApplyAudio
    \/ ApplyFrameRate
    \/ ApplyOutputPath
    \/ ApplyFrameRange
    \/ RenderAnimation
    \/ ReportResult
    \/ HandleException
    \/ RestoreOriginals
    \/ LeaveRenderToMp4

-----------------------------------------------------------------------------
(* Properties of the Export Orchestrator.                                  *)

ExportLeft == ex.pc = "done" /\ ex.outcome \in {"returned", "raised"}

\* C1 as stated: after any export call, success or failure, every field of
\* the Render Configuration has its pre-call value.
C1_ExportRestoresEveryField == ExportLeft => rc = ex.pre

\* C2: the five snapshotted fields (media type, file format, output path,
\* frame_start, frame_end) have their pre-call values once the finally block
\* has run, before export returns or lets the failure propagate, wherever in
\* the try region the failure occurred.
C2_SnapshotFieldsRestoredOnEveryExit ==
    (ex.pc = "leave" \/ ExportLeft) =>
        /\ rc.media_type = ex.pre.media_type
        /\ rc.file_format = ex.pre.file_format
        /\ rc.filepath = ex.pre.filepath
        /\ rc.frame_start = ex.pre.frame_start
        /\ rc.frame_end = ex.pre.frame_end

C2_Witness ==
    /\ ex.pc = "leave"
    /\ ex.exc = "Exit(1)"
    /\ ex.encodes = <<>>
    /\ ex.output_path = Cwd \o RelativeOutput
    /\ Parent(ex.output_path) \in fs.dirs
    /\ ex.pre = StudioConfig
    /\ ex.frame_start = 2
    /\ rc.frame_start = 1 /\ rc.file_format = "OPEN_EXR"

\* C9: when the encode raises, export does not return a result but raises to
\* its caller, the encode was invoked exactly once, and the render command
\* ends with a non-zero status.
C9_EncodeFailureSurfacesOnce ==
    /\ Len(ex.encodes) <= 1
    /\ (ex.pc = "done" /\ ex.encode_raised) =>
           /\ ex.outcome = "raised"
           /\ Len(ex.encodes) = 1
           /\ ex.caller = "render" => (ex.exit_code # <<>> /\ ex.exit_code # <<0>>)

C9_Witness ==
    /\ ex.pc = "done"
    /\ ex.encode_raised
    /\ ex.caller = "render"
    /\ ex.exit_code = <<1>>
    /\ ex.outcome = "raised"

\* C10 as stated: whenever export returns successfully, the output file
\* exists at the resolved output path and is not empty.
C10_ReturnImpliesOutputFile ==
    (ex.pc = "done" /\ ex.outcome = "returned") =>
        /\ Exists(fs, ex.output_path)
        /\ fs.files[ex.output_path] > 0

\* C8: an export with an unrecognized quality runs exactly as the same export
\* with quality "medium": at every step, and so when the encode is invoked and
\* when the call is left, the Render Configuration, the disk, the outcome and
\* every local but the quality argument and the warning are equal.
C8_UnknownQualityRunsAsMedium ==
    (ex.pc # "idle") =>
        /\ ex.arg_quality \notin DOMAIN quality_settings
        /\ exB.arg_quality = "medium"
        /\ rc = rcB
        /\ fs = fsB
        /\ ex.encodes = exB.encodes
        /\ [ex EXCEPT !.arg_quality = "medium", !.warned = FALSE] = exB

C8_Witness ==
    /\ ex.pc = "done"
    /\ ex.arg_quality = "ultra"
    /\ ex.warned
    /\ ex.outcome = "returned"
    /\ Len(ex.encodes) = 1
    /\ ex.encodes[1].video_bitrate = 4000
    /\ ex.encodes[1].gopsize = 15
    /\ ex.encodes[1].constant_rate_factor = "MEDIUM"
    /\ exB.outcome = "returned"

\* C11: when export is called without a frame_start (resp. frame_end), the
\* encode runs over the frame_start (resp. frame_end) the Render Configuration
\* held when export was called; a bound that is given is used as given, and
\* each bound defaults on its own.
C11_OmittedBoundDefaultsToScene ==
    (ex.encodes # <<>>) =>
        /\ ex.encodes[1].frame_start =
               (IF ex.arg_frame_start = <<>> THEN ex.pre.frame_start
                ELSE ex.arg_frame_start[1])
        /\ ex.encodes[1].frame_end =
               (IF ex.arg_frame_end = <<>> THEN ex.pre.frame_end
                ELSE ex.arg_frame_end[1])

C11_Witness ==
    /\ ex.pc = "done"
    /\ ex.arg_frame_start = <<>>
    /\ ex.arg_frame_end = <<5>>
    /\ ex.pre.frame_end = 48
    /\ Len(ex.encodes) = 1
    /\ ex.encodes[1].frame_start = ex.pre.frame_start
    /\ ex.encodes[1].frame_end = 5

\* C17: quality "high" encodes with bitrate 8000 and GOP 12, "medium" with
\* 4000 and 15, "low" with 2000 and 18, and an unrecognized quality as
\* "medium": when the encode is invoked the Render Configuration holds the
\* pair of the quality asked for.
C17_EncodeUsesQualityPair ==
    (ex.encodes # <<>>) =>
        LET q == ex.arg_quality
            e == ex.encodes[1]
        IN  /\ q = "high" => (e.video_bitrate = 8000 /\ e.gopsize = 12)
            /\ q = "medium" => (e.video_bitrate = 4000 /\ e.gopsize = 15)
            /\ q = "low" => (e.video_bitrate = 2000 /\ e.gopsize = 18)
            /\ q \notin {"high", "medium", "low"} =>
                   (e.video_bitrate = 4000 /\ e.gopsize = 15)

C17_Witness ==
    /\ ex.pc = "done"
    /\ ex.outcome = "returned"
    /\ ex.arg_quality = "low"
    /\ ex.pre.video_bitrate = 9000
    /\ Len(ex.encodes) = 1
    /\ ex.encodes[1].video_bitrate = 2000
    /\ ex.encodes[1].gopsize = 18

\* the finally clause of the running export has restored the originals
RestoreHasRun == ex.pc \in {"leave", "done"} /\ ex.outcome # "not called"

-----------------------------------------------------------------------------
\* the values render_to_mp4 assigns to the fields it does not snapshot
Overrides(e) ==
    [ffmpeg_format |-> "MPEG4", codec |-> "H264",
     constant_rate_factor |-> ConstantRateFactor(CoerceQuality(e.arg_quality)),
     ffmpeg_preset |-> "GOOD",
     video_bitrate |-> quality_settings[CoerceQuality(e.arg_quality)].bitrate,
     gopsize |-> quality_settings[CoerceQuality(e.arg_quality)].gop,
     audio_codec |-> "AAC", audio_bitrate |-> 192,
     fps |-> e.fps, fps_base |-> 1]

\* C25: the fields export overrides but does not snapshot (frame rate and
\* its base, codec and container, bitrate, GOP size, rate factor and preset,
\* audio codec and bitrate) keep their override values once their override
\* has run: a step of an export changes such a field only to its override
\* value, and from the encode on, through the restore and after the export
\* has returned or failed, each of them holds its override value; the frame
\* rate is the requested one and the bitrate the one of the quality.
C25_UnsnapshottedOverridesPersist ==
    [][ /\ ex.pc # "idle" =>
               \A fld \in DOMAIN Overrides(ex) :
                   rc'[fld] # rc[fld] => rc'[fld] = Overrides(ex')[fld]
        /\ ex'.encodes # <<>> =>
               \A fld \in DOMAIN Overrides(ex) : rc'[fld] = Overrides(ex')[fld] ]_vars

C25_Witness ==
    /\ ex.pc = "done"
    /\ ex.outcome = "returned"
    /\ ex.encodes # <<>>
    /\ ex.pre = StudioConfig
    /\ ex.fps = 30
    /\ ex.arg_quality = "low"
    /\ rc.fps = 30 /\ rc.fps_base = 1
    /\ rc.video_bitrate = 2000 /\ rc.gopsize = 18
    /\ rc.codec = "H264" /\ rc.ffmpeg_format = "MPEG4"
    /\ rc.audio_codec = "AAC" /\ rc.audio_bitrate = 192
    /\ rc.media_type = "IMAGE" /\ rc.file_format = "OPEN_EXR"

-----------------------------------------------------------------------------
(* Properties of the commands and scripts.                                 *)

\* the status the process of the command ends with
CommandStatus == IF cmd.name = "render" THEN ex.exit_code ELSE cmd.exit_code

\* a command ended on a missing input file or on a scene without camera
PreconditionFailed ==
    \/ cmd.name = "create" /\ cmd.pc = "done" /\ cmd.error = "not found"
    \/ cmd.name = "render" /\ ex.pc = "done" /\ ex.precondition # "met"

\* no export has touched the scene: the Render Configuration is the one the
\* command found or loaded, and the encode was never invoked
ExportNotStarted ==
    /\ ex.encodes = <<>>
    /\ ex.original = NoOriginal
    /\ cmd.name = "render" => rc = ex.pre
    /\ cmd.name = "create" => (ex = ExportIdle /\ rc = FactoryConfig)

\* C12 as stated: an unresolved precondition ends the command with a non-zero
\* status that differs from the status of an encode failure, before the
\* export is started.
C12_PreconditionStatusIsDistinct ==
    PreconditionFailed =>
        /\ CommandStatus # <<>>
        /\ CommandStatus[1] # 0
        /\ CommandStatus[1] # EXPORT_FAILED_EXIT
        /\ ExportNotStarted

\* C12, amended: an unresolved precondition ends the command with the non-zero
\* status 1, the status an encode failure also gives, before the export is
\* started: the Render Configuration is not mutated and the encode is never
\* invoked.
C12_PreconditionExitsBeforeExport ==
    PreconditionFailed =>
        /\ CommandStatus # <<>>
        /\ CommandStatus[1] # 0
        /\ CommandStatus = <<1>>
        /\ CommandStatus[1] = EXPORT_FAILED_EXIT
        /\ ExportNotStarted

C12_Witness ==
    /\ cmd.name = "render"
    /\ ex.pc = "done"
    /\ ex.precondition = "no camera"
    /\ ex.exit_code = <<1>>
    /\ rc = StudioConfig
    /\ ex.encodes = <<>>

\* a command imported an asset from a path that does not exist
ImportedMissingPath ==
    cmd.name \in {"create", "character_stub"} /\ ~cmd.path_exists

\* C13 as stated: every import entry point, given a path that does not exist,
\* signals a NotFound-class error and creates no scene node.
C13_MissingPathSignalsNotFound ==
    ImportedMissingPath => (cmd.error = "not found" /\ cmd.created = {})

\* C13, amended: import_fbx given a path that does not exist signals a
\* NotFound-class error and creates no scene node (nothing is tracked or
\* baked); import_character given such a path signals no error and creates
\* one placeholder node, ProxyCharacter, which is the character it returns.
C13_MissingPathPerEntryPoint ==
    /\ (ImportedMissingPath /\ cmd.name = "create") =>
           /\ cmd.pc = "done"
           /\ cmd.error = "not found"
           /\ cmd.exit_code = <<FBX_NOT_FOUND_EXIT>>
           /\ cmd.created = {}
           /\ anim = SceneTracks({})
           /\ bk.outcome = "none"
    /\ (ImportedMissingPath /\ cmd.name = "character_stub") =>
           /\ cmd.error = "none"
           /\ cmd.created = {ProxyCharacter}
           /\ cmd.target = <<ProxyCharacter>>
           /\ cmd.exit_code \in {<<>>, <<0>>}

C13_Witness ==
    /\ cmd.name = "create"
    /\ ~cmd.path_exists
    /\ cmd.pc = "done"
    /\ cmd.error = "not found"
    /\ cmd.created = {}

\* create imported a file that holds no skeletal rig
ImportedNoRig ==
    /\ cmd.name = "create"
    /\ cmd.path_exists
    /\ cmd.pc \notin {"start", "find"}
    /\ find_armature(cmd.created) = {}

\* the command ended normally after its bake returned
CompletedWithTrack ==
    /\ cmd.exit_code = <<0>>
    /\ cmd.error = "none"
    /\ bk.outcome = "returned"
    /\ bk.target \in cmd.created

\* C14 as stated: create with no rig among the imported objects is never
\* fatal and still bakes a track, for every set of imported objects, the
\* empty set included.
C14_NoRigStillBakes ==
    ImportedNoRig =>
        /\ cmd.error = "none"
        /\ cmd.pc = "done" => CompletedWithTrack

\* C14, amended: a degenerate input is not fatal as long as at least one
\* object was imported.  create with no rig among a non-empty set of imported
\* objects warns, tracks one of them as a plain object and completes; with
\* the empty set it ends with status 1 and bakes nothing.  A joint name the
\* rig does not have, and an unknown quality of an export that meets no other
\* failure, do not stop the command either; week2's main() tracks the
\* proxy target when the scene holds no Armature.
C14_DegenerateInputFatalOnlyWhenNothingImported ==
    /\ (ImportedNoRig /\ cmd.created # {}) =>
           /\ cmd.error = "none"
           /\ "no armature" \in cmd.warned
           /\ cmd.bone = NoBone
           /\ cmd.pc = "done" => CompletedWithTrack
    /\ (ImportedNoRig /\ cmd.created = {}) =>
           /\ cmd.pc = "done"
           /\ cmd.error = "no objects"
           /\ cmd.exit_code = <<NO_OBJECTS_EXIT>>
           /\ bk.outcome = "none"
           /\ anim[TikTokCamera] = NoAnimation
    /\ (cmd.name = "create" /\ cmd.pc = "done" /\ cmd.armature # <<>>
            /\ cmd.bone \notin PoseBones(cmd.armature[1])) =>
           CompletedWithTrack
    /\ (cmd.name = "render" /\ ex.pc = "done" /\ ex.warned /\ ex.exc = "none") =>
           /\ ex.exit_code = <<0>>
           /\ Len(ex.encodes) = 1
           /\ ex.encodes[1].video_bitrate = quality_settings["medium"].bitrate
    /\ (cmd.name = "camera_follow" /\ cmd.pc = "done") =>
           /\ bk.target = ProxyRig
           /\ CompletedWithTrack

C14_Witness ==
    /\ cmd.name = "create"
    /\ cmd.pc = "done"
    /\ cmd.created = {"Cube"}
    /\ "no armature" \in cmd.warned
    /\ cmd.exit_code = <<0>>
    /\ bk.outcome = "returned"
    /\ bk.target = "Cube"
    /\ DOMAIN anim[TikTokCamera].location = {2, 7, 12}

\* C15: in every bake loop (setup_camera_tracking, bake_camera_animation and
\* week1's setup_camera), the timeline is set to each sampled frame exactly
\* once, before the target position of that frame is resolved, and every
\* target position is resolved with the timeline at the frame being keyed.
C15_TimelineSetBeforeResolve ==
    LET sets == bk.frame_sets
        res == bk.resolves
    IN  /\ Len(res) <= Len(sets)
        /\ Len(sets) <= Len(res) + 1
        /\ \A i \in DOMAIN res :
               /\ i \in DOMAIN sets
               /\ res[i].frame = sets[i]
               /\ res[i].at = res[i].frame
        /\ \A i, j \in DOMAIN sets : i < j => sets[i] # sets[j]
        /\ \A i \in DOMAIN LocationWrites :
               /\ i \in DOMAIN sets
               /\ LocationWrites[i] = sets[i]
        /\ bk.pc \in {"resolve", "place", "orient", "key_location", "key_rotation"}
               => frame_current = bk.next

C15_Witness ==
    /\ bk.fn = "setup_camera"
    /\ bk.pc = "place"
    /\ bk.next = 11
    /\ frame_current = 11
    /\ bk.frame_sets = <<1, 11>>
    /\ bk.resolves = <<[frame |-> 1, at |-> 1], [frame |-> 11, at |-> 11]>>

-----------------------------------------------------------------------------
\* the bake runs in the scene reset_scene leaves
SceneAfterReset ==
    /\ cmd = CommandIdle
    /\ rc = FactoryConfig
    /\ fs = EmptyDisk
    /\ ex = ExportIdle
    /\ rcB = rc /\ fsB = fs /\ exB = ExportIdle

InitBake == BakeInit /\ SceneAfterReset

Init == BakeInit /\ ExportInit /\ cmd = CommandIdle

SpecBake == InitBake /\ [][BakeNext]_vars

SpecExport == Init /\ [][ExportNext]_vars

SpecTwin == Init /\ [][TwinNext]_vars

SpecScript == InitBake /\ [][ScriptNext]_vars

Next == BakeNext \/ ExportNext \/ ScriptNext

Spec == Init /\ [][Next]_vars

====
